---- MODULE Spec2Model ----
(***************************************************************************)
(* Model of src/IAS.py: the five-period DCF valuation (calculate_dcf), the *)
(* worksheet built by generate_spreadsheet / apply_formatting, the tables  *)
(* built by generate_pdf, and the Calculate-button handler of main.        *)
(*                                                                         *)
(* Numbers.  The program computes on Python floats.  The model computes on *)
(* exact rationals <<n, d>> (d > 0, lowest terms): rounding error and      *)
(* overflow of floats are outside the model; what is kept is Python's rule *)
(* that a division by zero raises ZeroDivisionError (never inf or NaN).    *)
(* A raised exception is the marker value ZeroDivisionError, which every   *)
(* later arithmetic step passes on, as no later statement of the function  *)
(* runs once an exception is raised.                                       *)
(***************************************************************************)
EXTENDS Integers, Sequences, FiniteSets, TLC

\* ---------------------------------------------------------------- bounds
\* wacc ranges over k/2, k in -MaxRateNum..MaxRateNum
MaxRateNum == 2
\* ebit[i] ranges over a*i, a in 0..MaxAmount
MaxAmount == 1

\* the fixed horizon: range(5) at src/IAS.py:35
Periods == 5

\* ------------------------------------------------------------ arithmetic
RECURSIVE GCD(_, _)
GCD(a, b) == IF b = 0 THEN a ELSE GCD(b, a % b)

Abs(n) == IF n < 0 THEN -n ELSE n

\* the rational n/d in lowest terms with a positive denominator (d # 0)
Norm(n, d) ==
    LET g == GCD(Abs(n), Abs(d))
        s == IF d < 0 THEN -1 ELSE 1
    IN  <<(s * n) \div g, (s * d) \div g>>

Float(n) == <<n, 1>>
Zero == Float(0)
One == Float(1)

\* the exception raised by a float division by zero
ZeroDivisionError == <<0, 0>>

IsRaised(a) == a[2] = 0

add(a, b) ==
    IF IsRaised(a) \/ IsRaised(b) THEN ZeroDivisionError
    ELSE Norm(a[1] * b[2] + b[1] * a[2], a[2] * b[2])

neg(a) == IF IsRaised(a) THEN ZeroDivisionError ELSE <<-a[1], a[2]>>

sub(a, b) == add(a, neg(b))

mul(a, b) ==
    IF IsRaised(a) \/ IsRaised(b) THEN ZeroDivisionError
    ELSE Norm(a[1] * b[1], a[2] * b[2])

\* Python's a / b on floats: raises for b == 0 whatever a is
truediv(a, b) ==
    IF IsRaised(a) \/ IsRaised(b) \/ b[1] = 0 THEN ZeroDivisionError
    ELSE Norm(a[1] * b[2], a[2] * b[1])

\* Python's a ** n for a positive integer n
RECURSIVE pow(_, _)
pow(a, n) == IF n = 0 THEN One ELSE mul(a, pow(a, n - 1))

\* Python's sum() over a list, left to right from 0
RECURSIVE sum(_)
sum(xs) == IF xs = <<>> THEN Zero ELSE add(sum(SubSeq(xs, 1, Len(xs) - 1)), xs[Len(xs)])

\* --------------------------------------------------------- calculate_dcf
\* Lists are 1-based here: ebit[i] of the model is ebit[i-1] of the code.

TaxOnEbit(ebit_i, tax_rate) == mul(mul(ebit_i, tax_rate), Float(-1))

FreeCashFlowCapexNegated(u, i) ==
    add(add(add(add(u.ebit[i], TaxOnEbit(u.ebit[i], u.tax_rate)), u.da[i]),
            neg(u.capex[i])), u.changes_in_nwc[i])

FreeCashFlow(u, i) ==
    add(add(add(add(u.ebit[i], TaxOnEbit(u.ebit[i], u.tax_rate)), u.da[i]),
            u.capex[i]), u.changes_in_nwc[i])

\* fcf[-1] * 1 + g / (wacc - g): the parentheses around 1 + g left out
TerminalValueNoParens(fcf_last, long_term_growth_rate, wacc) ==
    add(mul(fcf_last, One),
        truediv(long_term_growth_rate, sub(wacc, long_term_growth_rate)))

TerminalValue(fcf_last, long_term_growth_rate, wacc) ==
    truediv(mul(fcf_last, add(One, long_term_growth_rate)),
            sub(wacc, long_term_growth_rate))

\* 1 / wacc ** n: the "1 +" left out
DiscountFactorNoOne(wacc, n) == truediv(One, pow(wacc, n))

\* 1 / (1 + wacc) ** n
DiscountFactor(wacc, n) == truediv(One, pow(add(One, wacc), n))

EnterpriseValueNoTerminal(present_values, present_terminal_value) ==
    sum(present_values)

EnterpriseValue(present_values, present_terminal_value) ==
    add(sum(present_values), present_terminal_value)

EquityValue(enterprise_value, cash, debt) ==
    sub(add(enterprise_value, cash), debt)

\* a guard that turns the division by a zero market cap into 0
PremiumPercentageGuarded(intrinsic_value_premium, market_cap) ==
    IF market_cap = Zero THEN Zero
    ELSE truediv(intrinsic_value_premium, market_cap)

PremiumPercentage(intrinsic_value_premium, market_cap) ==
    truediv(intrinsic_value_premium, market_cap)

ResultFields ==
    {"fcf", "terminal_value", "present_values", "present_terminal_value",
     "enterprise_value", "equity_value", "intrinsic_value_per_share",
     "market_cap", "intrinsic_value_premium",
     "intrinsic_value_premium_percentage"}

Raise(exc, msg) == [raised |-> TRUE, exception |-> exc, message |-> msg]
Return(v) == [raised |-> FALSE, value |-> v]

calculate_dcf(user_inputs) ==
    LET tax_rate == user_inputs.tax_rate
        long_term_growth_rate == user_inputs.long_term_growth_rate
        wacc == user_inputs.wacc
        share_price == user_inputs.share_price
        shares_outstanding == user_inputs.shares_outstanding
        cash == user_inputs.cash
        debt == user_inputs.debt
        fcf == [i \in 1..Periods |-> FreeCashFlow(user_inputs, i)]
        terminal_value == TerminalValue(fcf[Periods], long_term_growth_rate, wacc)
        present_values ==
            [i \in 1..Periods |-> mul(fcf[i], DiscountFactor(wacc, i))]
        discount_factor_terminal == DiscountFactor(wacc, 5)
        present_terminal_value == mul(terminal_value, discount_factor_terminal)
        enterprise_value == EnterpriseValue(present_values, present_terminal_value)
        equity_value == EquityValue(enterprise_value, cash, debt)
        intrinsic_value_per_share == truediv(equity_value, shares_outstanding)
        market_cap == mul(share_price, shares_outstanding)
        intrinsic_value_premium == sub(equity_value, market_cap)
        intrinsic_value_premium_percentage ==
            PremiumPercentage(intrinsic_value_premium, market_cap)
    IN  IF \/ IsRaised(terminal_value)
           \/ \E i \in 1..Periods : IsRaised(present_values[i])
           \/ IsRaised(present_terminal_value)
           \/ IsRaised(intrinsic_value_per_share)
           \/ IsRaised(intrinsic_value_premium_percentage)
        THEN Raise("ZeroDivisionError", "float division by zero")
        ELSE Return([fcf |-> fcf,
                     terminal_value |-> terminal_value,
                     present_values |-> present_values,
                     present_terminal_value |-> present_terminal_value,
                     enterprise_value |-> enterprise_value,
                     equity_value |-> equity_value,
                     intrinsic_value_per_share |-> intrinsic_value_per_share,
                     market_cap |-> market_cap,
                     intrinsic_value_premium |-> intrinsic_value_premium,
                     intrinsic_value_premium_percentage |->
                         intrinsic_value_premium_percentage])

\* ------------------------------------------------------------ formatting
\* Python's fixed-point formatting rounds the value to the nearest multiple
\* of 10^-decimals, ties to even.
RoundHalfEven(n, d) ==
    LET q == n \div d
        r == n % d
    IN  IF 2 * r > d THEN q + 1
        ELSE IF 2 * r = d THEN q + (q % 2)
        ELSE q

RECURSIVE Pow10(_)
Pow10(k) == IF k = 0 THEN 1 ELSE 10 * Pow10(k - 1)

RECURSIVE ZeroPad(_, _)
ZeroPad(n, width) ==
    IF width <= 1 THEN ToString(n)
    ELSE IF n < Pow10(width - 1) THEN "0" \o ZeroPad(n, width - 1)
    ELSE ToString(n)

\* the "," option: groups of three digits
RECURSIVE Grouped(_)
Grouped(n) ==
    IF n < 1000 THEN ToString(n)
    ELSE Grouped(n \div 1000) \o "," \o ZeroPad(n % 1000, 3)

\* format(value, ",.<decimals>f") when grouping, else format(value, ".<decimals>f")
FormatFixed(value, decimals, grouping) ==
    LET scale == Pow10(decimals)
        q == RoundHalfEven(Abs(value[1]) * scale, value[2])
        whole == q \div scale
    IN  (IF value[1] < 0 THEN "-" ELSE "")
        \o (IF grouping THEN Grouped(whole) ELSE ToString(whole))
        \o (IF decimals = 0 THEN "" ELSE "." \o ZeroPad(q % scale, decimals))

\* format(value, ".<decimals>%")
FormatPercent(value, decimals) ==
    FormatFixed(mul(value, Float(100)), decimals, FALSE) \o "%"

format_currency(value) == "$" \o FormatFixed(value, 2, TRUE)

format_percentage(value) == FormatPercent(value, 2)

\* the markdown line st.markdown receives
display_colored_value(label, value, color, is_percentage) ==
    LET formatted_value ==
            IF is_percentage THEN format_percentage(value) ELSE format_currency(value)
    IN  "**" \o label \o ":** <span style='color: " \o color \o "'>"
        \o formatted_value \o "</span>"

\* ------------------------------------------------------------- worksheet
\* A cell value is a Python object: a str, an int, a float or None.
Str(s) == [type |-> "str", s |-> s, n |-> Zero]
PyInt(k) == [type |-> "int", s |-> "", n |-> Float(k)]
PyFloat(x) == [type |-> "float", s |-> "", n |-> x]
None == [type |-> "NoneType", s |-> "", n |-> Zero]

\* isinstance(value, (int, float))
IsNumber(v) == v.type \in {"int", "float"}

GeneralFormat == "General"
CurrencyFormat == "\"$\"#,##0.00"
PercentFormat == "0.00%"

NewCell(v) == [value |-> v, number_format |-> GeneralFormat]

\* Workbook().active with its title set
NewWorksheet == [title |-> "DCF Model", rows |-> <<>>, charts |-> <<>>]

\* an append that takes up no row for an empty list
ws_append_skip_empty(ws, values) ==
    IF values = <<>> THEN ws
    ELSE [ws EXCEPT !.rows = Append(@, [c \in 1..Len(values) |-> NewCell(values[c])])]

\* ws.append(values): the values go to columns A, B, ... of the row after the
\* last one; an empty list still takes up a row
ws_append(ws, values) ==
    [ws EXCEPT !.rows = Append(@, [c \in 1..Len(values) |-> NewCell(values[c])])]

RECURSIVE AppendAll(_, _)
AppendAll(ws, rowlist) ==
    IF rowlist = <<>> THEN ws
    ELSE AppendAll(ws_append(ws, Head(rowlist)), Tail(rowlist))

\* ws[ref]: a cell never written holds None
CellAt(ws, r, c) ==
    IF r \in 1..Len(ws.rows) /\ c \in 1..Len(ws.rows[r]) THEN ws.rows[r][c]
    ELSE NewCell(None)

\* 'B5', 'B6', 'B7' as <<row, column>>
percentage_cells == <<<<5, 2>>, <<6, 2>>, <<7, 2>>>>

\* the number formats apply_formatting sets (fonts, fills, borders and
\* column widths are not modelled)
apply_formatting(ws) ==
    LET IsPercentageCell(r, c) ==
            \E k \in 1..Len(percentage_cells) : percentage_cells[k] = <<r, c>>
        Format(r, c, cell) ==
            IF IsPercentageCell(r, c) /\ IsNumber(cell.value)
            THEN [cell EXCEPT !.number_format = PercentFormat]
            ELSE IF r >= 5 /\ c <= 12 /\ IsNumber(cell.value)
            THEN [cell EXCEPT !.number_format = CurrencyFormat]
            ELSE cell
    IN  [ws EXCEPT !.rows =
            [r \in 1..Len(ws.rows) |->
                [c \in 1..Len(ws.rows[r]) |-> Format(r, c, ws.rows[r][c])]]]

\* Reference(ws, min_col, min_row, max_col, max_row)
Reference(min_col, min_row, max_col, max_row) ==
    [min_col |-> min_col, min_row |-> min_row,
     max_col |-> max_col, max_row |-> max_row]

add_charts(ws, dcf_results) ==
    LET chart == [title |-> "Unlevered Free Cash Flow (UFCF)",
                  data |-> Reference(6, 13, 10, 13),
                  categories |-> Reference(5, 12, 10, 12),
                  anchor |-> "A30"]
    IN  [ws EXCEPT !.charts = Append(@, chart)]

Floats(xs) == [i \in 1..Len(xs) |-> PyFloat(xs[i])]

\* the lists handed to ws.append, in order
SheetRows(user_inputs, dcf_results, company_name) ==
    LET E == Str("")
    IN  << <<Str("DCF Model for " \o company_name)>>,
           <<Str("All figures in millions unless otherwise stated")>>,
           <<>>,
           <<E, Str("Hist."), Str("Proj."), Str("Proj."), Str("Proj."),
             Str("Proj."), Str("Proj.")>>,
           <<E, Str("Period 0"), Str("Period 1"), Str("Period 2"),
             Str("Period 3"), Str("Period 4"), Str("Period 5")>>,
           <<>>,
           <<Str("Discounted Cash Flow")>>,
           <<E, Str("Tax rate"), PyFloat(user_inputs.tax_rate)>>,
           <<E, Str("Long term growth rate"),
             PyFloat(user_inputs.long_term_growth_rate)>>,
           <<E, Str("WACC"), PyFloat(user_inputs.wacc)>>,
           <<E, Str("Share price"), PyFloat(user_inputs.share_price)>>,
           <<E, Str("Shares outstanding"),
             PyFloat(user_inputs.shares_outstanding)>>,
           <<>>,
           <<E, Str("Year count"), E, PyInt(1), PyInt(2), PyInt(3), PyInt(4),
             PyInt(5)>>,
           <<E, Str("EBIT"), E>> \o Floats(user_inputs.ebit),
           <<E, Str("Tax on EBIT"), E>>
               \o [i \in 1..Len(user_inputs.ebit) |->
                     PyFloat(TaxOnEbit(user_inputs.ebit[i], user_inputs.tax_rate))],
           <<E, Str("+ Depreciation and amortization"), E>>
               \o Floats(user_inputs.da),
           <<E, Str("- Capital expenditure"), E>> \o Floats(user_inputs.capex),
           <<E, Str("Change in operating working capital"), E>>
               \o Floats(user_inputs.changes_in_nwc),
           <<E, Str("Free cash flow"), E>> \o Floats(dcf_results.fcf),
           <<>>,
           <<E, Str("Terminal value"), E, E, E, E, E,
             PyFloat(dcf_results.terminal_value)>>,
           <<>>,
           <<E, Str("Discount factor"), E>>
               \o [i \in 1..5 |-> PyFloat(DiscountFactor(user_inputs.wacc, i))],
           <<E, Str("Present value of free cash flows"), E>>
               \o Floats(dcf_results.present_values),
           <<>>,
           <<E, Str("Sum of present value of free cash flows"),
             PyFloat(sum(dcf_results.present_values))>>,
           <<E, Str("Present value of terminal value"),
             PyFloat(dcf_results.present_terminal_value)>>,
           <<E, Str("Enterprise value"), PyFloat(dcf_results.enterprise_value)>>,
           <<>>,
           <<E, Str("+ Cash"), PyFloat(user_inputs.cash)>>,
           <<E, Str("- Debt"), PyFloat(user_inputs.debt)>>,
           <<E, Str("Implied equity value (intrinsic value)"),
             PyFloat(dcf_results.equity_value)>>,
           <<>>,
           <<E, Str("Market capitalization"), PyFloat(dcf_results.market_cap)>>,
           <<E, Str("Intrinsic value premium to market capitalization"),
             PyFloat(dcf_results.intrinsic_value_premium)>>,
           <<E, Str("Intrinsic value premium percentage"),
             PyFloat(dcf_results.intrinsic_value_premium_percentage)>> >>

\* the worksheet saved into the returned file (the xlsx bytes are not modelled)
generate_spreadsheet(user_inputs, dcf_results, company_name) ==
    apply_formatting(
        AppendAll(NewWorksheet, SheetRows(user_inputs, dcf_results, company_name)))

\* ------------------------------------------------------------------- pdf
assumptions_data(user_inputs) ==
    << <<"Key Assumptions", "Value">>,
       <<"Tax Rate", FormatPercent(user_inputs.tax_rate, 1)>>,
       <<"WACC", FormatPercent(user_inputs.wacc, 1)>>,
       <<"Long Term Growth Rate",
         FormatPercent(user_inputs.long_term_growth_rate, 1)>>,
       <<"Share Price", "$" \o FormatFixed(user_inputs.share_price, 2, FALSE)>>,
       <<"Shares Outstanding",
         FormatFixed(user_inputs.shares_outstanding, 0, TRUE)>> >>

results_data(dcf_results) ==
    << <<"DCF Results", "Value">>,
       <<"Enterprise Value",
         "$" \o FormatFixed(dcf_results.enterprise_value, 2, TRUE)>>,
       <<"Equity Value", "$" \o FormatFixed(dcf_results.equity_value, 2, TRUE)>>,
       <<"Intrinsic Value per Share",
         "$" \o FormatFixed(dcf_results.intrinsic_value_per_share, 2, TRUE)>>,
       <<"Market Cap", "$" \o FormatFixed(dcf_results.market_cap, 2, TRUE)>>,
       <<"Intrinsic Value Premium",
         "$" \o FormatFixed(dcf_results.intrinsic_value_premium, 2, TRUE)>>,
       <<"Premium Percentage",
         FormatPercent(dcf_results.intrinsic_value_premium_percentage, 1)>> >>

\* the elements handed to doc.build (spacers and table styles are not
\* modelled; the pdf bytes are not modelled)
generate_pdf(user_inputs, dcf_results, company_name) ==
    [title |-> "DCF Analysis Report for " \o company_name,
     assumptions_table |-> assumptions_data(user_inputs),
     results_table |-> results_data(dcf_results),
     footer |-> "Disclaimer: This report is for educational purposes only."]

\* ------------------------------------------------------------------ main
\* The values the number inputs of the page may hold.
Rates == {Norm(k, 2) : k \in -MaxRateNum..MaxRateNum}
GrowthRates == {Norm(-1, 2), Zero, Norm(1, 2)}
TaxRates == {Zero, Norm(1, 2)}
SharePrices == {Zero, Float(3)}
ShareCounts == {Zero, Float(2)}
CashValues == {Zero, Float(1)}
DebtValues == {Zero, Float(2)}
Zeros == [i \in 1..Periods |-> Zero]
EbitValues == {[i \in 1..Periods |-> Float(a * i)] : a \in 0..MaxAmount}
DaValues == {Zeros, <<Float(2), Zero, Zero, Zero, Float(1)>>}
CapexValues == {Zeros, <<Float(-3), Zero, Zero, Zero, Float(-1)>>}
NwcValues == {Zeros, <<Float(-1), Zero, Float(-2), Zero, Zero>>}
CompanyNames == {"Example Company", "Acme"}

\* company_name.replace(' ', '_') on the names above
ReplaceSpaces(name) ==
    CASE name = "Example Company" -> "Example_Company"
      [] OTHER -> name

\* what each widget accepts, by key of user_inputs
InputValues ==
    [tax_rate |-> TaxRates, long_term_growth_rate |-> GrowthRates, wacc |-> Rates,
     share_price |-> SharePrices, shares_outstanding |-> ShareCounts,
     cash |-> CashValues, debt |-> DebtValues, ebit |-> EbitValues,
     da |-> DaValues, capex |-> CapexValues, changes_in_nwc |-> NwcValues]

VARIABLES
    company_name,      \* the text input
    user_inputs,       \* the dictionary built from the number inputs
    pc,                \* where the run of the script stands
    dcf_results,       \* the local of main, None while unbound
    exception,         \* the exception caught by the except clause, "" if none
    markdown,          \* the result lines on the page
    excel_file,        \* the local of main, None while unbound
    pdf_file,          \* the local of main, None while unbound
    download_buttons,  \* the download buttons on the page
    error              \* the st.error box on the page, "" if none

vars == <<company_name, user_inputs, pc, dcf_results, exception, markdown,
          excel_file, pdf_file, download_buttons, error>>

Init ==
    /\ company_name = "Example Company"
    /\ user_inputs = [tax_rate |-> Norm(1, 2),
                      long_term_growth_rate |-> Zero,
                      wacc |-> Norm(1, 2),
                      share_price |-> Float(3),
                      shares_outstanding |-> Float(2),
                      cash |-> Float(1),
                      debt |-> Float(2),
                      ebit |-> Zeros,
                      da |-> <<Float(2), Zero, Zero, Zero, Float(1)>>,
                      capex |-> <<Float(-3), Zero, Zero, Zero, Float(-1)>>,
                      changes_in_nwc |-> <<Float(-1), Zero, Float(-2), Zero, Zero>>]
    /\ pc = "idle"
    /\ dcf_results = None
    /\ exception = ""
    /\ markdown = <<>>
    /\ excel_file = None
    /\ pdf_file = None
    /\ download_buttons = <<>>
    /\ error = ""

\* A rerun of the script starts from an empty page and unbound locals.
FreshRun ==
    /\ dcf_results' = None
    /\ exception' = ""
    /\ markdown' = <<>>
    /\ excel_file' = None
    /\ pdf_file' = None
    /\ download_buttons' = <<>>
    /\ error' = ""

\* The user changes one number input: the script reruns with the button
\* not pressed, so nothing below the inputs is drawn.
EditNumberInput ==
    /\ pc = "idle"
    /\ \E key \in DOMAIN InputValues : \E v \in InputValues[key] :
          /\ v # user_inputs[key]
          /\ user_inputs' = [user_inputs EXCEPT ![key] = v]
    /\ FreshRun
    /\ UNCHANGED <<company_name, pc>>

EditCompanyName ==
    /\ pc = "idle"
    /\ \E name \in CompanyNames \ {company_name} : company_name' = name
    /\ FreshRun
    /\ UNCHANGED <<user_inputs, pc>>

\* A download button is clicked: the script reruns with "Calculate DCF" not
\* pressed.
ClickDownload ==
    /\ pc = "idle"
    /\ download_buttons # <<>>
    /\ FreshRun
    /\ UNCHANGED <<company_name, user_inputs, pc>>

\* st.button("Calculate DCF") returns True in the rerun the click starts
ClickCalculate ==
    /\ pc = "idle"
    /\ FreshRun
    /\ pc' = "try"
    /\ UNCHANGED <<company_name, user_inputs>>

\* the except clause is skipped: the script goes on to the display
CallCalculateDcfGoOn ==
    /\ pc = "try"
    /\ LET r == calculate_dcf(user_inputs)
       IN  /\ dcf_results' = IF r.raised THEN None ELSE r.value
           /\ exception' = IF r.raised THEN r.exception ELSE ""
           /\ pc' = "display"
    /\ UNCHANGED <<company_name, user_inputs, markdown, excel_file, pdf_file,
                   download_buttons, error>>

\* dcf_results = calculate_dcf(user_inputs) inside the try
CallCalculateDcf ==
    /\ pc = "try"
    /\ LET r == calculate_dcf(user_inputs)
       IN  IF r.raised
           THEN /\ exception' = r.exception
                /\ pc' = "except"
                /\ UNCHANGED dcf_results
           ELSE /\ dcf_results' = r.value
                /\ pc' = "display"
                /\ UNCHANGED exception
    /\ UNCHANGED <<company_name, user_inputs, markdown, excel_file, pdf_file,
                   download_buttons, error>>

\* the six display_colored_value calls
DisplayResults ==
    /\ pc = "display"
    /\ LET premium_color ==
               IF dcf_results = None \/ dcf_results.intrinsic_value_premium[1] >= 0
               THEN "green" ELSE "red"
           Line(label, field, color, is_percentage) ==
               IF dcf_results = None THEN label
               ELSE display_colored_value(label, dcf_results[field], color,
                                          is_percentage)
       IN  markdown' =
             << Line("Enterprise Value", "enterprise_value", "green", FALSE),
                Line("Equity Value", "equity_value", "green", FALSE),
                Line("Intrinsic Value per Share", "intrinsic_value_per_share",
                     "green", FALSE),
                Line("Market Cap", "market_cap", "blue", FALSE),
                Line("Intrinsic Value Premium", "intrinsic_value_premium",
                     premium_color, FALSE),
                Line("Intrinsic Value Premium %",
                     "intrinsic_value_premium_percentage", premium_color, TRUE) >>
    /\ pc' = "excel"
    /\ UNCHANGED <<company_name, user_inputs, dcf_results, exception,
                   excel_file, pdf_file, download_buttons, error>>

\* generate_spreadsheet and the Excel download button
ExcelDownload ==
    /\ pc = "excel"
    /\ excel_file' = generate_spreadsheet(user_inputs, dcf_results, company_name)
    /\ download_buttons' = Append(download_buttons,
          [label |-> "Download Excel File",
           file_name |-> "dcf_analysis_" \o ReplaceSpaces(company_name) \o ".xlsx",
           mime |-> "application/vnd.openxmlformats-officedocument.spreadsheetml.sheet"])
    /\ pc' = "pdf"
    /\ UNCHANGED <<company_name, user_inputs, dcf_results, exception, markdown,
                   pdf_file, error>>

\* generate_pdf and the PDF download button; the script then ends
PdfDownload ==
    /\ pc = "pdf"
    /\ pdf_file' = generate_pdf(user_inputs, dcf_results, company_name)
    /\ download_buttons' = Append(download_buttons,
          [label |-> "Download PDF Report",
           file_name |-> "dcf_analysis_" \o ReplaceSpaces(company_name) \o ".pdf",
           mime |-> "application/pdf"])
    /\ pc' = "idle"
    /\ UNCHANGED <<company_name, user_inputs, dcf_results, exception, markdown,
                   excel_file, error>>

\* except Exception as e: st.error(...); the script then ends
ShowError ==
    /\ pc = "except"
    /\ error' = "Error calculating DCF: float division by zero"
    /\ pc' = "idle"
    /\ UNCHANGED <<company_name, user_inputs, dcf_results, exception, markdown,
                   excel_file, pdf_file, download_buttons>>

Next ==
    \/ EditNumberInput
    \/ EditCompanyName
    \/ ClickDownload
    \/ ClickCalculate
    \/ CallCalculateDcf
    \/ DisplayResults
    \/ ExcelDownload
    \/ PdfDownload
    \/ ShowError

Spec == Init /\ [][Next]_vars

\* ---------------------------------------------------------------- claims
Less(a, b) == a[1] * b[2] < b[1] * a[2]

\* calculate_dcf has been called in this run and has ended
Called == dcf_results # None \/ exception # ""

Returned == dcf_results # None

MarketCapOf(u) == mul(u.share_price, u.shares_outstanding)

\* the three singularities the specification lists
ListedSingularity(u) ==
    \/ u.wacc = u.long_term_growth_rate
    \/ u.shares_outstanding = Zero
    \/ u.share_price = Zero
    \/ MarketCapOf(u) = Zero

AllZeroProjections(u) ==
    /\ u.ebit = Zeros
    /\ u.da = Zeros
    /\ u.capex = Zeros
    /\ u.changes_in_nwc = Zeros

NothingRendered ==
    /\ markdown = <<>>
    /\ excel_file = None
    /\ pdf_file = None
    /\ download_buttons = <<>>

\* C1: whenever wacc == long_term_growth_rate, or shares_outstanding == 0, or
\* share_price == 0 (market_cap == 0), the call of calculate_dcf ends in an
\* error and returns no result, whatever the other inputs are.
C1_SingularInputsRaise ==
    (Called /\ ListedSingularity(user_inputs))
        => (exception = "ZeroDivisionError" /\ dcf_results = None)

\* C1 witness: the call has failed on wacc == long_term_growth_rate with a
\* zero last free cash flow, shares and share price being non-zero
C1_Witness ==
    /\ exception # ""
    /\ user_inputs.wacc = user_inputs.long_term_growth_rate
    /\ FreeCashFlow(user_inputs, Periods) = Zero
    /\ user_inputs.shares_outstanding # Zero
    /\ user_inputs.share_price # Zero

CompleteResult ==
    /\ dcf_results # None
    /\ exception = ""
    /\ DOMAIN dcf_results = ResultFields

\* C2 as stated: apart from wacc == long_term_growth_rate, shares_outstanding
\* == 0 and share_price * shares_outstanding == 0, no input makes
\* calculate_dcf fail: it returns a result with all ten fields.
C2_OnlyListedSingularitiesFail ==
    (Called /\ ~ListedSingularity(user_inputs)) => CompleteResult

\* C2 amended: apart from the three listed singularities and wacc == -1 (where
\* (1 + wacc) ** (i + 1) is zero), calculate_dcf returns a result with all
\* ten fields, also for rates outside (0,1).
C2_TotalApartFromFour ==
    (Called /\ ~ListedSingularity(user_inputs) /\ user_inputs.wacc # Float(-1))
        => CompleteResult

\* C2 witness: a complete result returned for a negative wacc, a zero tax
\* rate and a zero growth rate, all outside (0,1)
C2_Witness ==
    /\ CompleteResult
    /\ Less(user_inputs.wacc, Zero)
    /\ user_inputs.tax_rate = Zero
    /\ user_inputs.long_term_growth_rate = Zero

\* C3: results are displayed, the reports generated and the downloads offered
\* only once calculate_dcf has returned a result for the current inputs; when
\* it fails no result is kept, nothing is rendered, and the error message is
\* shown by the end of the run.
C3_RenderOnlyAfterResult ==
    /\ (~NothingRendered \/ pc \in {"display", "excel", "pdf"})
          => /\ dcf_results # None
             /\ exception = ""
             /\ error = ""
             /\ calculate_dcf(user_inputs) = Return(dcf_results)
    /\ exception # ""
          => /\ dcf_results = None
             /\ NothingRendered
             /\ pc \in {"except", "idle"}
             /\ (pc = "idle" => error # "")
    /\ error # "" => exception # ""

\* C3 witness: a run that failed has ended with the error message on the page
C3_Witness ==
    /\ pc = "idle"
    /\ exception # ""
    /\ error = "Error calculating DCF: float division by zero"
    /\ NothingRendered

\* C4: fcf[i] = ebit[i] - ebit[i]*tax_rate + da[i] + capex[i] +
\* changes_in_nwc[i] for every period i, capex and changes_in_nwc added with
\* the caller's sign, and only period i's values entering fcf[i].
C4_FcfFormula ==
    Returned =>
        \A i \in 1..Periods :
            dcf_results.fcf[i] =
                add(add(add(sub(user_inputs.ebit[i],
                                mul(user_inputs.ebit[i], user_inputs.tax_rate)),
                            user_inputs.da[i]),
                        user_inputs.capex[i]),
                    user_inputs.changes_in_nwc[i])

\* C4 witness: a result for inputs with non-zero tax, negative capex and
\* working-capital change, and values that differ between periods
C4_Witness ==
    /\ Returned
    /\ user_inputs.tax_rate # Zero
    /\ user_inputs.ebit[1] # Zero
    /\ user_inputs.ebit[1] # user_inputs.ebit[2]
    /\ Less(user_inputs.capex[1], Zero)
    /\ Less(user_inputs.changes_in_nwc[3], Zero)
    /\ dcf_results.fcf[1] # dcf_results.fcf[2]

\* C5: every returned result has enterprise_value = sum(present_values) +
\* present_terminal_value and equity_value = enterprise_value + cash - debt,
\* for wacc > long_term_growth_rate.
C5_ValueIdentities ==
    (Returned /\ Less(user_inputs.long_term_growth_rate, user_inputs.wacc)) =>
        /\ dcf_results.enterprise_value =
              add(sum(dcf_results.present_values),
                  dcf_results.present_terminal_value)
        /\ dcf_results.equity_value =
              sub(add(dcf_results.enterprise_value, user_inputs.cash),
                  user_inputs.debt)

\* C5 witness: a result with wacc above the growth rate, a non-zero present
\* terminal value and cash different from debt
C5_Witness ==
    /\ Returned
    /\ Less(user_inputs.long_term_growth_rate, user_inputs.wacc)
    /\ dcf_results.present_terminal_value # Zero
    /\ user_inputs.cash # user_inputs.debt
    /\ user_inputs.cash # Zero

\* C9: with ebit, da, capex and changes_in_nwc all zero, the returned fcf is
\* all zero and terminal_value is zero, and so are the present values, the
\* present terminal value and the enterprise value.
C9_ZeroSensitivity ==
    (Returned /\ AllZeroProjections(user_inputs)) =>
        /\ dcf_results.fcf = Zeros
        /\ dcf_results.terminal_value = Zero
        /\ dcf_results.present_values = Zeros
        /\ dcf_results.present_terminal_value = Zero
        /\ dcf_results.enterprise_value = Zero

\* C9 witness: a result for all-zero projections with non-zero tax and
\* growth rates
C9_Witness ==
    /\ Returned
    /\ AllZeroProjections(user_inputs)
    /\ user_inputs.tax_rate # Zero
    /\ user_inputs.long_term_growth_rate # Zero

\* the label of a worksheet row: its text in column A, else in column B
LabelOf(row) ==
    IF Len(row) >= 1 /\ row[1].value.s # "" THEN row[1].value.s
    ELSE IF Len(row) >= 2 THEN row[2].value.s
    ELSE ""

GridLabels(ws) == [r \in 1..Len(ws.rows) |-> LabelOf(ws.rows[r])]

RowOf(ws, label) == CHOOSE r \in 1..Len(ws.rows) : LabelOf(ws.rows[r]) = label

HasRow(ws, label) == \E r \in 1..Len(ws.rows) : LabelOf(ws.rows[r]) = label

TableLabels(table) == [r \in 1..Len(table) |-> table[r][1]]

ExpectedGridLabels(name) ==
    <<"DCF Model for " \o name,
      "All figures in millions unless otherwise stated", "", "Hist.",
      "Period 0", "", "Discounted Cash Flow", "Tax rate",
      "Long term growth rate", "WACC", "Share price", "Shares outstanding",
      "", "Year count", "EBIT", "Tax on EBIT",
      "+ Depreciation and amortization", "- Capital expenditure",
      "Change in operating working capital", "Free cash flow", "",
      "Terminal value", "", "Discount factor",
      "Present value of free cash flows", "",
      "Sum of present value of free cash flows",
      "Present value of terminal value", "Enterprise value", "", "+ Cash",
      "- Debt", "Implied equity value (intrinsic value)", "",
      "Market capitalization",
      "Intrinsic value premium to market capitalization",
      "Intrinsic value premium percentage">>

\* C8: the rows of the grid and of the two tables of the pdf, their order and
\* their labels are the same for every input and result; only the entity
\* name in the title and the values differ.
C8_FixedLayout ==
    /\ excel_file # None =>
          /\ Len(excel_file.rows) = 37
          /\ GridLabels(excel_file) = ExpectedGridLabels(company_name)
    /\ pdf_file # None =>
          /\ TableLabels(pdf_file.assumptions_table) =
                <<"Key Assumptions", "Tax Rate", "WACC", "Long Term Growth Rate",
                  "Share Price", "Shares Outstanding">>
          /\ TableLabels(pdf_file.results_table) =
                <<"DCF Results", "Enterprise Value", "Equity Value",
                  "Intrinsic Value per Share", "Market Cap",
                  "Intrinsic Value Premium", "Premium Percentage">>

\* C8 witness: both reports generated for the other entity name, all-zero
\* projections and a negative premium
C8_Witness ==
    /\ excel_file # None
    /\ pdf_file # None
    /\ company_name = "Acme"
    /\ AllZeroProjections(user_inputs)
    /\ Less(dcf_results.intrinsic_value_premium, Zero)

RateRows ==
    [label \in {"Tax rate", "Long term growth rate", "WACC"} |->
        CASE label = "Tax rate" -> user_inputs.tax_rate
          [] label = "Long term growth rate" -> user_inputs.long_term_growth_rate
          [] OTHER -> user_inputs.wacc]

MonetaryRows ==
    {"Share price", "EBIT", "Tax on EBIT", "+ Depreciation and amortization",
     "- Capital expenditure", "Change in operating working capital",
     "Free cash flow", "Terminal value", "Present value of free cash flows",
     "Sum of present value of free cash flows",
     "Present value of terminal value", "Enterprise value", "+ Cash", "- Debt",
     "Implied equity value (intrinsic value)", "Market capitalization",
     "Intrinsic value premium to market capitalization"}

\* C6: in the generated grid the tax rate, WACC and growth rate cells hold the
\* raw fraction with the percentage number format, and every numeric monetary
\* cell has the currency format.
C6_RateCellsArePercentages ==
    excel_file # None =>
        /\ \A label \in DOMAIN RateRows :
              /\ HasRow(excel_file, label)
              /\ LET cell == CellAt(excel_file, RowOf(excel_file, label), 3)
                 IN  /\ cell.value = PyFloat(RateRows[label])
                     /\ cell.number_format = PercentFormat
        /\ \A r \in 1..Len(excel_file.rows) :
              LabelOf(excel_file.rows[r]) \in MonetaryRows =>
                  \A c \in 1..Len(excel_file.rows[r]) :
                      IsNumber(excel_file.rows[r][c].value) =>
                          excel_file.rows[r][c].number_format = CurrencyFormat

\* C7: the generated spreadsheet has a chart whose data are the five period
\* cells of the 'Free cash flow' row and whose categories are the period
\* labels of those columns (in the header row or the 'Year count' row).
C7_ChartOverFcfRow ==
    excel_file # None =>
        \E k \in 1..Len(excel_file.charts) :
            LET fcf_row == RowOf(excel_file, "Free cash flow")
                chart == excel_file.charts[k]
            IN  /\ chart.data = Reference(4, fcf_row, 8, fcf_row)
                /\ \E r \in {RowOf(excel_file, "Period 0"),
                             RowOf(excel_file, "Year count")} :
                       chart.categories = Reference(4, r, 8, r)

PeriodRows ==
    [label \in {"EBIT", "Tax on EBIT", "+ Depreciation and amortization",
                "- Capital expenditure", "Change in operating working capital",
                "Free cash flow", "Discount factor",
                "Present value of free cash flows"} |->
        CASE label = "EBIT" -> user_inputs.ebit
          [] label = "Tax on EBIT" ->
                [i \in 1..Periods |->
                    TaxOnEbit(user_inputs.ebit[i], user_inputs.tax_rate)]
          [] label = "+ Depreciation and amortization" -> user_inputs.da
          [] label = "- Capital expenditure" -> user_inputs.capex
          [] label = "Change in operating working capital" ->
                user_inputs.changes_in_nwc
          [] label = "Free cash flow" -> dcf_results.fcf
          [] label = "Discount factor" ->
                [i \in 1..Periods |-> DiscountFactor(user_inputs.wacc, i)]
          [] OTHER -> dcf_results.present_values]

\* the column of the header row that reads 'Period k'
PeriodColumn(ws, k) ==
    LET header == ws.rows[RowOf(ws, "Period 0")]
    IN  CHOOSE c \in 1..Len(header) :
            header[c].value = Str("Period " \o ToString(k))

\* C10: in the grid, the column headed 'Period k' holds the period-k value of
\* each per-period row, and the terminal value lies in the 'Period 5' column.
C10_PeriodColumnsAligned ==
    excel_file # None =>
        /\ \A k \in 1..Periods : \A label \in DOMAIN PeriodRows :
              CellAt(excel_file, RowOf(excel_file, label),
                     PeriodColumn(excel_file, k)).value
                  = PyFloat(PeriodRows[label][k])
        /\ CellAt(excel_file, RowOf(excel_file, "Terminal value"),
                  PeriodColumn(excel_file, Periods)).value
              = PyFloat(dcf_results.terminal_value)

====
